---- MODULE Spec2Model ----
(***************************************************************************)
(* PickAssistant.py: the cycle walk of run_pick_assistant over the S3      *)
(* records of one pod run, its completion test and retry loop, the         *)
(* generation of the sorted lists, the missing-data warning, and the       *)
(* benchmark loop of the main block.                                       *)
(*                                                                         *)
(* S3 objects, JSON values and Python's None are all records with a "kind" *)
(* field, so that any two of them can be compared.  A bin identifier is    *)
(* the tuple of its characters (<<"1", "a">> is "1a", <<>> is "" or a      *)
(* missing binId).  A stow record is a non-empty JSON object.              *)
(*                                                                         *)
(* The bucket is written by the workcell while the tool reads it, and the  *)
(* tool keeps no copy of it: nothing is assumed of the bucket between two  *)
(* get_object calls, so each call may answer with any object, except that  *)
(* the run has at most MaxCycle cycles (a key past MaxCycle is NoSuchKey). *)
(***************************************************************************)
EXTENDS Naturals, Integers, Sequences, FiniteSets, TLC

\* Highest cycle index the bucket ever holds an object for; a key past it is NoSuchKey.
MaxCycle == 2

\* Highest number of runs a benchmark session is followed for.
MaxRuns == 2

VARIABLES
    benchmark_mode,   \* args.benchmark
    run_count,        \* runs started so far (counted by __main__ in benchmark mode)
    orchestrator,     \* the run identifiers of the input loop ("" when unset)
    podID,            \* a tuple of tokens: <<"pod_", "1">> is "pod_1", <<>> is ""
    stationId,
    custom_date,
    pc,               \* position of the process in __main__ / run_pick_assistant
    annotationObject, \* answer of the bucket for cycle_i/auto_annotation/_olaf_primary_annotation.data.json
    stowObject,       \* answer of the bucket for cycle_i/dynamic_1/match_output.data.json
    TrueCycleCount,   \* expected cycle count
    inputt,           \* what was typed at the cycle-count prompt ("-" when not prompted)
    isDone,
    i,
    cycles,
    StowedItems,      \* dict: key -> entry
    AttemptedStows,   \* dict: key -> entry
    AnnotationData,
    StowData,
    read_success,
    current_state,    \* WorkflowState value
    itemss,
    bitemss,
    missingWarning,   \* the deficit printed by the missing-data warning, -1 when not printed
    exitCode,         \* exit status of the process, "-" while it runs
    identityObjects,  \* answers of the bucket for the three pod identity records of cycle_1
    podId,
    podType,
    podFace,
    upload_calls,     \* calls of upload_to_cleans_collection in this run
    persisted,        \* a document of this run was inserted into the cleans collection
    result,           \* what run_pick_assistant returned ("-" while it runs)
    grid,             \* pod face grid: row -> column -> item codes
    gridBins,         \* bin identifiers handed to the grid mapper so far
    stations,         \* grub_menu: the listings as last fetched
    dates,
    orchestrators,
    pods,
    selected_idx,
    key,              \* the last key read by get_key ("-" before the first)
    selected_station, \* "-" while unbound
    selected_date,
    selected_orchestrator,
    selected_pod,
    menuResult        \* what grub_menu returned ("-" while it has not)

vars == <<benchmark_mode, run_count, orchestrator, podID, stationId, custom_date, pc, annotationObject, stowObject, TrueCycleCount, inputt, isDone, i,
          cycles, StowedItems, AttemptedStows, AnnotationData, StowData, read_success,
          current_state, itemss, bitemss, missingWarning, exitCode, identityObjects, podId,
          podType, podFace, upload_calls, persisted, result, grid, gridBins, stations,
          dates, orchestrators, pods, selected_idx, key, selected_station, selected_date,
          selected_orchestrator, selected_pod, menuResult>>

----------------------------------------------------------------------------
\* Values

\* podID == ""
NoPod == <<>>

None == [kind |-> "None"]
NoSuchKey == [kind |-> "NoSuchKey"]
BadJson == [kind |-> "JSONDecodeError"]

BinIds == {<<"1", "a">>, <<"2", "b">>}
NoBinId == <<>>

StowRecord(b) ==
    [kind |-> "stow", itemFcsku |-> "X001", binId |-> b, binScannableId |-> "P-1-A"]

StowRecords == {StowRecord(b) : b \in BinIds \cup {NoBinId}}

AnnotationRecords ==
    {[kind |-> "annotation", isStowedItemInBin |-> TRUE, vpmWrongBin |-> FALSE],
     [kind |-> "annotation", isStowedItemInBin |-> TRUE, vpmWrongBin |-> TRUE],
     [kind |-> "annotation", isStowedItemInBin |-> FALSE, vpmWrongBin |-> FALSE],
     [kind |-> "annotation", isStowedItemInBin |-> FALSE, vpmWrongBin |-> TRUE]}

\* A match_output object that decodes, but to a non-empty JSON array instead of an object.
ArrayJson == [kind |-> "array"]

StowObjects == {NoSuchKey, BadJson, ArrayJson} \cup StowRecords
AnnotationObjects == {NoSuchKey, BadJson} \cup AnnotationRecords

\* The objects the bucket may answer with for a key of cycle index n.
StowObjectsAt(n) == IF n <= MaxCycle THEN StowObjects ELSE {NoSuchKey}
AnnotationObjectsAt(n) == IF n <= MaxCycle THEN AnnotationObjects ELSE {NoSuchKey}

----------------------------------------------------------------------------
\* get_json: the parsed record, or None on any exception (missing key, bad JSON).

\* Mutant: the not-found condition is handed to the caller instead of None.
GetJson_PassesNotFound(obj) == IF obj.kind \in {"JSONDecodeError"} THEN None ELSE obj

GetJson(obj) == IF obj.kind \in {"NoSuchKey", "JSONDecodeError"} THEN None ELSE obj

\* Python truth value of a fetched record: None is false, a non-empty dict is true.
Truthy(d) == d # None

\* The value has a .get method (it is a JSON object).
IsDict(d) == d.kind \in {"stow", "annotation"}

\* `if AnnotationData is None and StowData is None: break`
WalkEnds(a, s) == a = None /\ s = None

\* Mutant: the count is taken in the branch of a record without binId only.
CountsCycle_MissingBinOnly(s) == Truthy(s) /\ s.binId = <<>>

\* `if StowData: cycles += 1`
CountsCycle(s) == Truthy(s)

\* Mutant: a stow record without binId is classified like any other.
HasBin_Always(s) == TRUE

\* `if StowData.get("binId")`
HasBin(s) == s.binId # NoBinId

\* Mutant: any annotation that is present confirms the stow.
IsConfirmed_IgnoresFlag(a) == Truthy(a)

\* `if AnnotationData and AnnotationData.get("isStowedItemInBin")`
IsConfirmed(a) == Truthy(a) /\ a.isStowedItemInBin

\* Mutant: the key is built from the index the walk goes to next.
CycleKey_NextIndex(n) == <<"/cycle_", n + 1>>

\* '/cycle_' + str(i)
CycleKey(n) == <<"/cycle_", n>>

Entry(s) == [itemFcsku |-> s.itemFcsku, binId |-> s.binId, binScannableId |-> s.binScannableId]

\* Mutant: one missing cycle is let through.
IsComplete_OffByOne(c, t) == c + 1 >= t

\* Mutant: the count has to exceed the expected one.
IsComplete_Strict(c, t) == c > t

\* `if cycles >= TrueCycleCount`
IsComplete(c, t) == c >= t

EmptyDict == <<>>

\* The pod face: 13 rows by 4 columns of item code lists.
GridRows == 13
GridCols == 4
EmptyGrid == [r \in 1..GridRows |-> [c \in 1..GridCols |-> <<>>]]

\* d[key] = entry
DictSet(d, k, entry) == (k :> entry) @@ d

\* The values of a dict in insertion order; the walk inserts by increasing cycle index.
RECURSIVE DictValuesFrom(_, _)
DictValuesFrom(d, n) ==
    IF \A k \in DOMAIN d : k[2] < n THEN <<>>
    ELSE IF CycleKey(n) \in DOMAIN d
         THEN <<d[CycleKey(n)]>> \o DictValuesFrom(d, n + 1)
         ELSE DictValuesFrom(d, n + 1)

DictValues(d) == DictValuesFrom(d, 1)

----------------------------------------------------------------------------
\* The cycle-count prompt: what can be typed, str.isdigit and int.

NumStr == <<"0", "1", "2", "3", "4", "5", "6", "7", "8", "9">>

TypedCounts == {NumStr[n + 1] : n \in 0..MaxCycle} \cup {"", "abc"}

IsDigit(t) == \E n \in 1..Len(NumStr) : NumStr[n] = t

ToInt(t) == (CHOOSE n \in 1..Len(NumStr) : NumStr[n] = t) - 1

\* `if inputt.isdigit(): int(inputt)  elif inputt == "": 1  else: 1`
PromptCycleCount(t) == IF IsDigit(t) THEN ToInt(t) ELSE 1

\* The count parsed from a "cycle_N" part of the orchestrator path (0 when there is none),
\* then the prompt `if TrueCycleCount == 0`.
ResolveCycleCount(parsed, typed) == IF parsed = 0 THEN PromptCycleCount(typed) ELSE parsed

----------------------------------------------------------------------------
\* itemss.sort(key=lambda x: x[0][-1] + x[0][-2]): a stable sort on the last character
\* followed by the one before it, compared as Python strings (by code point).

Chars == <<"1", "2", "3", "4", "a", "b", "c", "d", "e", "f", "g", "h", "i", "j", "k", "l", "m">>

Ord(c) == CHOOSE n \in 1..Len(Chars) : Chars[n] = c

\* Mutant: the key is the last two characters as they stand, digit first.
SortKey_DigitFirst(x) == <<x[1][Len(x[1]) - 1], x[1][Len(x[1])]>>

SortKey(x) == <<x[1][Len(x[1])], x[1][Len(x[1]) - 1]>>

KeyLess(k1, k2) ==
    \/ Ord(k1[1]) < Ord(k2[1])
    \/ k1[1] = k2[1] /\ Ord(k1[2]) < Ord(k2[2])

\* x goes after every element whose key is not greater than its own.
RECURSIVE InsertSorted(_, _)
InsertSorted(x, sorted) ==
    IF sorted = <<>> THEN <<x>>
    ELSE IF KeyLess(SortKey(x), SortKey(Head(sorted)))
         THEN <<x>> \o sorted
         ELSE <<Head(sorted)>> \o InsertSorted(x, Tail(sorted))

RECURSIVE SortList(_)
SortList(l) ==
    IF l = <<>> THEN <<>>
    ELSE InsertSorted(l[Len(l)], SortList(SubSeq(l, 1, Len(l) - 1)))

\* `itemss.append([d[item]["binId"], d[item]["itemFcsku"]])` for each item, then the sort.
RECURSIVE ToPairs(_)
ToPairs(vals) ==
    IF vals = <<>> THEN <<>>
    ELSE <<<<Head(vals).binId, Head(vals).itemFcsku>>>> \o ToPairs(Tail(vals))

SortedItems(d) == SortList(ToPairs(DictValues(d)))

----------------------------------------------------------------------------
\* State

\* grub_menu is not entered: its locals are unbound.
MenuUnset ==
    /\ stations = <<>>
    /\ dates = <<>>
    /\ orchestrators = <<>>
    /\ pods = <<>>
    /\ selected_idx = 0
    /\ key = "-"
    /\ selected_station = "-"
    /\ selected_date = "-"
    /\ selected_orchestrator = "-"
    /\ selected_pod = "-"
    /\ menuResult = <<"-">>

Init ==
    /\ benchmark_mode \in BOOLEAN
    /\ run_count = 1
    /\ orchestrator = ""
    /\ podID = NoPod
    /\ stationId = ""
    /\ custom_date = ""
    /\ pc = "input"
    /\ annotationObject = NoSuchKey
    /\ stowObject = NoSuchKey
    /\ TrueCycleCount = 0
    /\ inputt = "-"
    /\ isDone = FALSE
    /\ i = 0
    /\ cycles = 0
    /\ StowedItems = EmptyDict
    /\ AttemptedStows = EmptyDict
    /\ AnnotationData = None
    /\ StowData = None
    /\ read_success = FALSE
    /\ current_state = "reading_files"
    /\ itemss = <<>>
    /\ bitemss = <<>>
    /\ missingWarning = -1
    /\ exitCode = "-"
    /\ identityObjects = <<NoSuchKey, NoSuchKey, NoSuchKey>>
    /\ podId = None
    /\ podType = None
    /\ podFace = None
    /\ upload_calls = 0
    /\ persisted = FALSE
    /\ result = "-"
    /\ grid = EmptyGrid
    /\ gridBins = {}
    /\ MenuUnset

\* The locals of a run before its first statement, and of a process that has ended.
\* Mutant: the run identifiers are kept from one call to the next.
FreshLocals_KeepsIdentifiers ==
    /\ UNCHANGED <<orchestrator, podID, stationId, custom_date>>
    /\ TrueCycleCount' = 0
    /\ inputt' = "-"
    /\ isDone' = FALSE
    /\ i' = 0
    /\ cycles' = 0
    /\ StowedItems' = EmptyDict
    /\ AttemptedStows' = EmptyDict
    /\ AnnotationData' = None
    /\ StowData' = None
    /\ annotationObject' = NoSuchKey
    /\ stowObject' = NoSuchKey
    /\ read_success' = FALSE
    /\ current_state' = "reading_files"
    /\ itemss' = <<>>
    /\ bitemss' = <<>>
    /\ missingWarning' = -1
    /\ identityObjects' = <<NoSuchKey, NoSuchKey, NoSuchKey>>
    /\ podId' = None
    /\ podType' = None
    /\ podFace' = None

FreshLocals ==
    /\ orchestrator' = ""
    /\ podID' = NoPod
    /\ stationId' = ""
    /\ custom_date' = ""
    /\ TrueCycleCount' = 0
    /\ inputt' = "-"
    /\ isDone' = FALSE
    /\ i' = 0
    /\ cycles' = 0
    /\ StowedItems' = EmptyDict
    /\ AttemptedStows' = EmptyDict
    /\ AnnotationData' = None
    /\ StowData' = None
    /\ annotationObject' = NoSuchKey
    /\ stowObject' = NoSuchKey
    /\ read_success' = FALSE
    /\ current_state' = "reading_files"
    /\ itemss' = <<>>
    /\ bitemss' = <<>>
    /\ missingWarning' = -1
    /\ identityObjects' = <<NoSuchKey, NoSuchKey, NoSuchKey>>
    /\ podId' = None
    /\ podType' = None
    /\ podFace' = None

Bucket == <<annotationObject, stowObject>>
WalkLocals == <<i, cycles, StowedItems, AttemptedStows, AnnotationData, StowData>>
Outputs == <<itemss, bitemss, missingWarning>>
Identifiers == <<orchestrator, podID, stationId, custom_date>>
PodIdentity == <<identityObjects, podId, podType, podFace>>
Sink == <<upload_calls, persisted, result>>
Grid == <<grid, gridBins>>
Listings == <<stations, dates, orchestrators, pods>>
Selection == <<selected_station, selected_date, selected_orchestrator, selected_pod>>
Menu == <<Listings, selected_idx, key, Selection, menuResult>>

----------------------------------------------------------------------------
\* run_pick_assistant: the input loop

STATION_LIST == {"0206", "0207", "0208", "0303", "0306", "0307", "0308"}

\* What can be typed at the pod prompt: a number, a pod name, something else, nothing.
TypedPods == {<<"1">>, <<"pod_", "1">>, <<"x">>, <<>>}

\* The pod part of a typed orchestrator path (NoPod when there is none).
PathPods == {NoPod, <<"pod_", "1">>}

\* `if inputt.isdigit(): "pod_" + inputt  elif inputt.startswith("pod_"): inputt
\*  else: "pod_1"`
PromptPodID(t) ==
    IF Len(t) = 1 /\ IsDigit(t[1]) THEN <<"pod_">> \o t
    ELSE IF Len(t) >= 1 /\ t[1] = "pod_" THEN t
    ELSE <<"pod_", "1">>

\* One turn of the input loop: an identifier that is still unset is read (the pod and the
\* cycle count from the path when it has them, else from their prompts), and the three
\* pod identity records of cycle_1 are fetched.
InputAttempt(parsed, typed, pathPod, typedPod, idObj, typeObj, faceObj) ==
    /\ pc = "input"
    /\ orchestrator' = IF orchestrator = "" THEN "orchestrator_1" ELSE orchestrator
    /\ podID' = LET p == IF pathPod # NoPod THEN pathPod ELSE podID
                IN IF p = NoPod THEN PromptPodID(typedPod) ELSE p
    /\ stationId' = IF stationId \notin STATION_LIST THEN "0206" ELSE stationId
    /\ custom_date' = IF custom_date = "" THEN "2025-10-07" ELSE custom_date
    /\ TrueCycleCount' = ResolveCycleCount(parsed, typed)
    /\ inputt' = IF parsed = 0 THEN typed ELSE "-"
    /\ identityObjects' = <<idObj, typeObj, faceObj>>
    /\ podId' = GetJson(idObj)
    /\ podType' = GetJson(typeObj)
    /\ podFace' = GetJson(faceObj)
    /\ pc' = IF GetJson(idObj) # None /\ GetJson(typeObj) # None /\ GetJson(faceObj) # None
             THEN "pass_start"
             ELSE "retry_prompt"
    /\ UNCHANGED <<benchmark_mode, run_count, Sink, Grid, Menu, Bucket, isDone, WalkLocals,
                   read_success, current_state, Outputs, exitCode>>

PodIdentityObjects == {NoSuchKey, [kind |-> "identity"]}

\* "exit" typed at the "Enter the ID" prompt: exit_funct.
TypeExit ==
    /\ pc = "input"
    /\ pc' = "exited"
    /\ exitCode' = "1"
    /\ UNCHANGED <<benchmark_mode, run_count, Identifiers, PodIdentity, Sink, Grid, Menu, Bucket, TrueCycleCount, inputt,
                   isDone, WalkLocals, read_success, current_state, Outputs>>

InputAttempts(pathPod, typedPod) ==
    \E parsed \in 0..MaxCycle, idObj, typeObj, faceObj \in PodIdentityObjects :
        \/ /\ parsed = 0
           /\ \E typed \in TypedCounts :
                 InputAttempt(parsed, typed, pathPod, typedPod, idObj, typeObj, faceObj)
        \/ /\ parsed # 0
           /\ InputAttempt(parsed, "-", pathPod, typedPod, idObj, typeObj, faceObj)

Input ==
    \/ \E typedPod \in TypedPods : InputAttempts(NoPod, typedPod)
    \/ \E pathPod \in PathPods \ {NoPod} : InputAttempts(pathPod, <<>>)
    \/ TypeExit

\* "Retry with different inputs? (y/n)": y resets the inputs; anything else returns False
\* in benchmark mode (the loop of __main__ breaks and the script ends) and exit(1) otherwise.
\* Mutant: the retry keeps the station and the date of the failed attempt.
RetryPrompt_KeepsStationAndDate(retry) ==
    /\ pc = "retry_prompt"
    /\ IF retry = "y"
       THEN /\ pc' = "input"
            /\ orchestrator' = ""
            /\ podID' = NoPod
            /\ TrueCycleCount' = 0
            /\ UNCHANGED <<stationId, custom_date, inputt, exitCode, result>>
       ELSE /\ pc' = "exited"
            /\ exitCode' = IF benchmark_mode THEN "0" ELSE "1"
            /\ result' = IF benchmark_mode THEN "False" ELSE result
            /\ orchestrator' = ""
            /\ podID' = NoPod
            /\ stationId' = ""
            /\ custom_date' = ""
            /\ TrueCycleCount' = 0
            /\ inputt' = "-"
    /\ UNCHANGED <<benchmark_mode, run_count, PodIdentity, upload_calls, persisted, Grid, Menu, Bucket,
                   isDone, WalkLocals, read_success, current_state, Outputs>>

RetryPrompt(retry) ==
    /\ pc = "retry_prompt"
    /\ IF retry = "y"
       THEN /\ pc' = "input"
            /\ orchestrator' = ""
            /\ podID' = NoPod
            /\ TrueCycleCount' = 0
            /\ stationId' = ""
            /\ custom_date' = ""
            /\ UNCHANGED <<inputt, exitCode, result>>
       ELSE /\ pc' = "exited"
            /\ exitCode' = IF benchmark_mode THEN "0" ELSE "1"
            /\ result' = IF benchmark_mode THEN "False" ELSE result
            /\ orchestrator' = ""
            /\ podID' = NoPod
            /\ stationId' = ""
            /\ custom_date' = ""
            /\ TrueCycleCount' = 0
            /\ inputt' = "-"
    /\ UNCHANGED <<benchmark_mode, run_count, PodIdentity, upload_calls, persisted, Grid, Menu, Bucket, isDone,
                   WalkLocals, read_success, current_state, Outputs>>

Retry == \E retry \in {"y", "n"} : RetryPrompt(retry)

----------------------------------------------------------------------------
\* run_pick_assistant: the walk

\* Mutant: the dicts and the count are set up once, before the retry loop.
BeginPass_Incremental ==
    /\ ~isDone
    /\ i' = 1
    /\ pc' = "fetch_annotation"
    /\ UNCHANGED <<benchmark_mode, run_count, Identifiers, PodIdentity, Sink, Grid, Menu,
                   Bucket, TrueCycleCount, inputt, isDone, cycles,
                   StowedItems, AttemptedStows, AnnotationData, StowData, read_success,
                   current_state, Outputs, exitCode>>

\* `i = 1; StowedItems = {}; AttemptedStows = {}; cycles = 0` at the head of `while not isDone`
BeginPass ==
    /\ ~isDone
    /\ i' = 1
    /\ StowedItems' = EmptyDict
    /\ AttemptedStows' = EmptyDict
    /\ cycles' = 0
    /\ pc' = "fetch_annotation"
    /\ UNCHANGED <<benchmark_mode, run_count, Identifiers, PodIdentity, Sink, Grid, Menu,
                   Bucket, TrueCycleCount, inputt, isDone, AnnotationData,
                   StowData, read_success, current_state, Outputs, exitCode>>

\* The first pass, after the input loop.
PassStart ==
    /\ pc = "pass_start"
    /\ BeginPass

\* `time.sleep(1)` is over and the loop starts the next pass.
RetryPass ==
    /\ pc = "sleep"
    /\ BeginPass

\* `AnnotationData = get_json(annotation_s3_uri)`
FetchAnnotation(obj) ==
    /\ pc = "fetch_annotation"
    /\ annotationObject' = obj
    /\ AnnotationData' = GetJson(obj)
    /\ pc' = "fetch_stow"
    /\ UNCHANGED <<benchmark_mode, run_count, Identifiers, PodIdentity, Sink, Grid, Menu,
                   stowObject, TrueCycleCount, inputt, isDone, i, cycles,
                   StowedItems, AttemptedStows, StowData, read_success, current_state,
                   Outputs, exitCode>>

\* `StowData = get_json(stow_location_s3_uri)` and the rest of the loop body.  A truthy
\* StowData without a .get method raises AttributeError at `StowData.get("binId")`, after
\* `cycles += 1`: the handler sets READ_FAILED and re-raises, and the process dies of it.
FetchStow(obj) ==
    /\ pc = "fetch_stow"
    /\ stowObject' = obj
    /\ LET s == GetJson(obj)
           a == AnnotationData
       IN /\ StowData' = s
          /\ IF WalkEnds(a, s)
             THEN /\ pc' = "decide"
                  /\ UNCHANGED <<i, cycles, StowedItems, AttemptedStows, read_success,
                                 current_state, exitCode>>
             ELSE IF Truthy(s) /\ ~IsDict(s)
             THEN /\ pc' = "exited"
                  /\ exitCode' = "1"
                  /\ cycles' = cycles + 1
                  /\ read_success' = FALSE
                  /\ current_state' = "read_failed"
                  /\ UNCHANGED <<i, StowedItems, AttemptedStows>>
             ELSE /\ pc' = "fetch_annotation"
                  /\ i' = i + 1
                  /\ cycles' = IF CountsCycle(s) THEN cycles + 1 ELSE cycles
                  /\ StowedItems' =
                        IF Truthy(s) /\ HasBin(s) /\ IsConfirmed(a)
                        THEN DictSet(StowedItems, CycleKey(i), Entry(s))
                        ELSE StowedItems
                  /\ AttemptedStows' =
                        IF Truthy(s) /\ HasBin(s) /\ ~IsConfirmed(a)
                        THEN DictSet(AttemptedStows, CycleKey(i), Entry(s))
                        ELSE AttemptedStows
                  /\ UNCHANGED <<read_success, current_state, exitCode>>
    /\ UNCHANGED <<benchmark_mode, run_count, Identifiers, PodIdentity, Sink, Grid, Menu, annotationObject, TrueCycleCount,
                   inputt, isDone, AnnotationData, Outputs>>

WalkStep ==
    \/ \E obj \in AnnotationObjectsAt(i) : FetchAnnotation(obj)
    \/ \E obj \in StowObjectsAt(i) : FetchStow(obj)

\* Mutant: the loop ends without the READ_COMPLETE state being set.
Decide_NoReadComplete ==
    /\ pc = "decide"
    /\ IF IsComplete(cycles, TrueCycleCount)
       THEN /\ isDone' = TRUE
            /\ read_success' = TRUE
            /\ pc' = "generate"
            /\ UNCHANGED current_state
       ELSE /\ pc' = "sleep"
            /\ UNCHANGED <<isDone, read_success, current_state>>
    /\ UNCHANGED <<benchmark_mode, run_count, Identifiers, PodIdentity, Sink, Grid, Menu,
                   Bucket, TrueCycleCount, inputt, WalkLocals, Outputs,
                   exitCode>>

\* `if cycles >= TrueCycleCount: isDone = True ... else: time.sleep(1)`
Decide ==
    /\ pc = "decide"
    /\ IF IsComplete(cycles, TrueCycleCount)
       THEN /\ isDone' = TRUE
            /\ read_success' = TRUE
            /\ current_state' = "read_complete"
            /\ pc' = "generate"
       ELSE /\ pc' = "sleep"
            /\ UNCHANGED <<isDone, read_success, current_state>>
    /\ UNCHANGED <<benchmark_mode, run_count, Identifiers, PodIdentity, Sink, Grid, Menu,
                   Bucket, TrueCycleCount, inputt, WalkLocals, Outputs,
                   exitCode>>

----------------------------------------------------------------------------
\* run_pick_assistant: generation, the warning and the upload

\* `if not read_success: raise RuntimeError`, else GENERATING_CONTENT.
BeginGenerate ==
    /\ pc = "generate"
    /\ IF ~read_success
       THEN /\ pc' = "exited"
            /\ exitCode' = "1"
            /\ UNCHANGED current_state
       ELSE /\ current_state' = "generating_content"
            /\ pc' = "generating"
            /\ UNCHANGED exitCode
    /\ UNCHANGED <<benchmark_mode, run_count, Identifiers, PodIdentity, Sink, Grid, Menu, Bucket, TrueCycleCount, inputt,
                   isDone, WalkLocals, read_success, Outputs>>

\* The two sorted lists, then GENERATION_COMPLETE.
Generate ==
    /\ pc = "generating"
    /\ itemss' = SortedItems(StowedItems)
    /\ bitemss' = SortedItems(AttemptedStows)
    /\ current_state' = "generation_complete"
    /\ pc' = "report"
    /\ UNCHANGED <<benchmark_mode, run_count, Identifiers, PodIdentity, Sink, Grid, Menu, Bucket, TrueCycleCount, inputt,
                   isDone, WalkLocals, read_success, missingWarning, exitCode>>

\* `if TrueCycleCount > cycles: print(... TrueCycleCount - cycles ...)`, then
\* upload_to_cleans_collection(), whose body only logs that the upload is disabled and
\* returns True, and `return True` whatever the upload returned.
\* Mutant: the retry loop around the upload (lines 518-523) is back and calls it again.
Report_UploadsAgain ==
    /\ pc = "report"
    /\ missingWarning' = IF TrueCycleCount > cycles THEN TrueCycleCount - cycles ELSE -1
    /\ upload_calls' = upload_calls + 2
    /\ persisted' = persisted
    /\ result' = "True"
    /\ pc' = "returned"
    /\ UNCHANGED <<benchmark_mode, run_count, Identifiers, PodIdentity, Grid, Menu, Bucket, TrueCycleCount, inputt, isDone,
                   WalkLocals, read_success, current_state, itemss, bitemss, exitCode>>

Report ==
    /\ pc = "report"
    /\ missingWarning' = IF TrueCycleCount > cycles THEN TrueCycleCount - cycles ELSE -1
    /\ upload_calls' = upload_calls + 1
    /\ persisted' = persisted
    /\ result' = "True"
    /\ pc' = "returned"
    /\ UNCHANGED <<benchmark_mode, run_count, Identifiers, PodIdentity, Grid, Menu, Bucket, TrueCycleCount, inputt, isDone,
                   WalkLocals, read_success, current_state, itemss, bitemss, exitCode>>

----------------------------------------------------------------------------
\* __main__

\* Mutant: the loop of __main__ runs once in benchmark mode too.
AfterRun_SingleRun ==
    /\ pc = "returned"
    /\ benchmark_mode => run_count < MaxRuns
    /\ pc' = "exited"
    /\ exitCode' = "0"
    /\ FreshLocals
    /\ UNCHANGED <<benchmark_mode, run_count, Sink, Grid, Menu>>

\* The run returned True: benchmark mode starts the next run, normal mode ends the script.
AfterRun ==
    /\ pc = "returned"
    /\ benchmark_mode => run_count < MaxRuns
    /\ IF benchmark_mode
       THEN /\ pc' = "input"
            /\ UNCHANGED exitCode
       ELSE /\ pc' = "exited"
            /\ exitCode' = "0"
    /\ FreshLocals
    /\ upload_calls' = IF benchmark_mode THEN 0 ELSE upload_calls
    /\ persisted' = IF benchmark_mode THEN FALSE ELSE persisted
    /\ result' = IF benchmark_mode THEN "-" ELSE result
    /\ run_count' = IF benchmark_mode THEN run_count + 1 ELSE run_count
    /\ UNCHANGED <<benchmark_mode, Grid, Menu>>

\* Ctrl+C while a run is in progress: KeyboardInterrupt is not an Exception, so no handler
\* of run_pick_assistant sees it; benchmark mode calls exit_funct, normal mode dies of it.
Interrupt ==
    /\ pc \notin {"exited", "interrupted"}
    /\ pc' = "interrupted"
    /\ exitCode' = IF benchmark_mode THEN "1" ELSE "KeyboardInterrupt"
    /\ FreshLocals
    /\ UNCHANGED <<benchmark_mode, run_count, Sink, Grid, Menu>>

----------------------------------------------------------------------------
Program ==
    \/ Input
    \/ Retry
    \/ PassStart
    \/ RetryPass
    \/ WalkStep
    \/ Decide
    \/ BeginGenerate
    \/ Generate
    \/ Report
    \/ AfterRun

Next ==
    \/ Program
    \/ Interrupt

Spec == Init /\ [][Next]_vars

\* The process runs on: a statement that can be executed is executed.  Nothing is assumed
\* of the bucket or of the user's Ctrl+C.
LiveSpec == Spec /\ WF_vars(Program)

----------------------------------------------------------------------------
\* The generation step on its own: the run has completed its walk with any dicts of at
\* most MaxItems cycles over bins whose last two characters collide or differ in the
\* letter, in the digit or in both.

MaxItems == 3

SortBins == {<<"1", "a">>, <<"4", "a">>, <<"2", "b">>, <<"7", "1", "a">>}

\* What the walk did with a cycle: nothing, confirmed in a bin, attempted in a bin.
Placements == {<<"none", NoBinId>>} \cup ({"stowed", "attempted"} \X SortBins)

DictOf(f, what) ==
    [k \in {CycleKey(n) : n \in {m \in DOMAIN f : f[m][1] = what}} |->
        Entry(StowRecord(f[k[2]][2]))]

SortInit ==
    /\ benchmark_mode \in BOOLEAN
    /\ run_count = 1
    /\ orchestrator = "orchestrator_1"
    /\ podID = <<"pod_", "1">>
    /\ stationId = "0206"
    /\ custom_date = "2025-10-07"
    /\ pc = "generating"
    /\ annotationObject = NoSuchKey
    /\ stowObject = NoSuchKey
    /\ TrueCycleCount = 0
    /\ inputt = "0"
    /\ isDone = TRUE
    /\ i = MaxItems + 1
    /\ cycles = MaxItems
    /\ \E f \in [1..MaxItems -> Placements] :
          /\ StowedItems = DictOf(f, "stowed")
          /\ AttemptedStows = DictOf(f, "attempted")
    /\ AnnotationData = None
    /\ StowData = None
    /\ read_success = TRUE
    /\ current_state = "generating_content"
    /\ itemss = <<>>
    /\ bitemss = <<>>
    /\ missingWarning = -1
    /\ exitCode = "-"
    /\ identityObjects = <<[kind |-> "identity"], [kind |-> "identity"], [kind |-> "identity"]>>
    /\ podId = [kind |-> "identity"]
    /\ podType = [kind |-> "identity"]
    /\ podFace = [kind |-> "identity"]
    /\ upload_calls = 0
    /\ persisted = FALSE
    /\ result = "-"
    /\ grid = EmptyGrid
    /\ gridBins = {}
    /\ MenuUnset

SortNext ==
    \/ Generate
    \/ Report

SortSpec == SortInit /\ [][SortNext]_vars

----------------------------------------------------------------------------
\* Properties

InWalk == pc \in {"fetch_annotation", "fetch_stow", "decide", "sleep"}

Keys == DOMAIN StowedItems \cup DOMAIN AttemptedStows

\* C1: a walk pass stops exactly at the first cycle index whose stow record is absent,
\* whatever the annotation of that index is: when the stow records of 1..i-1 were all
\* present (cycles = i - 1) and the fetch at i finds no object, the pass ends there with
\* cycles = i - 1 and no further index is fetched.
C1_StopsAtFirstAbsentStow ==
    [][(/\ pc = "fetch_stow"
        /\ pc' \in {"fetch_annotation", "decide"}
        /\ cycles = i - 1
        /\ stowObject' = NoSuchKey)
       => (pc' = "decide" /\ i' = i /\ cycles' = i - 1)]_vars

\* C2: a cycle whose stow record is present with a non-empty binId is in the confirmed dict
\* if and only if its annotation is present with isStowedItemInBin true, and in the
\* attempted dict in every other case.  (At "fetch_annotation" with i > 1 the two answers
\* of the bucket are those of index i - 1.)
C2_ConfirmedIffAnnotated ==
    (pc = "fetch_annotation" /\ i > 1 /\ stowObject.kind = "stow" /\ stowObject.binId # NoBinId)
    => LET flagged == annotationObject.kind = "annotation" /\ annotationObject.isStowedItemInBin
           k == CycleKey(i - 1)
       IN /\ k \in DOMAIN StowedItems <=> flagged
          /\ k \in DOMAIN AttemptedStows <=> ~flagged

C2_Witness ==
    /\ pc = "fetch_annotation"
    /\ i = 3
    /\ CycleKey(1) \in DOMAIN StowedItems
    /\ CycleKey(2) \in DOMAIN AttemptedStows
    /\ annotationObject.kind = "annotation"
    /\ annotationObject.vpmWrongBin
    /\ ~annotationObject.isStowedItemInBin

\* C3: when the stow record or the annotation of a cycle index is undecodable, the walk
\* neither goes on to the next index nor ends as if the data were exhausted.
C3_MalformedAborts ==
    [][(pc = "fetch_stow" /\ pc' \in {"fetch_annotation", "decide"})
       => (stowObject' # BadJson /\ annotationObject' # BadJson)]_vars

\* No pass ever observes as many cycles as expected, and the user never presses Ctrl+C.
NeverEnough == [](pc = "decide" => cycles < TrueCycleCount)
NoInterrupt == [](pc # "interrupted")

\* C4: the retry loop is bounded: when no pass ever observes the expected number of
\* cycles, the run still leaves the walk and retry loop without an interrupt.
C4_RetryLoopBounded ==
    (NeverEnough /\ NoInterrupt) => (InWalk ~> ~InWalk)

C6_PassesStartFresh ==
    [][/\ (pc \in {"pass_start", "sleep"} /\ pc' \notin {pc, "interrupted"}) =>
             /\ pc' = "fetch_annotation"
             /\ i' = 1
             /\ StowedItems' = EmptyDict
             /\ AttemptedStows' = EmptyDict
             /\ cycles' = 0
       /\ (pc = "fetch_stow" /\ pc' \in {"fetch_annotation", "decide"}) =>
             /\ DOMAIN StowedItems' \subseteq DOMAIN StowedItems \cup {CycleKey(i)}
             /\ DOMAIN AttemptedStows' \subseteq DOMAIN AttemptedStows \cup {CycleKey(i)}
             /\ \A k \in DOMAIN StowedItems : StowedItems'[k] = StowedItems[k]
             /\ \A k \in DOMAIN AttemptedStows : AttemptedStows'[k] = AttemptedStows[k]
             /\ cycles' \in {cycles, cycles + 1}
       /\ (pc \in {"fetch_annotation", "decide", "generate", "report"} /\ pc' # "interrupted") =>
             UNCHANGED <<StowedItems, AttemptedStows, cycles>>
       /\ InWalk' => (cycles' <= i' - 1 /\ \A k \in Keys' : k[2] < i')
      ]_vars

\* A retry pass has begun: the pass before it ended on an undecodable stow record.
C6_Witness ==
    /\ pc = "fetch_stow"
    /\ i = 1
    /\ stowObject = BadJson
    /\ TrueCycleCount = 2
    /\ StowedItems = EmptyDict
    /\ AttemptedStows = EmptyDict

\* C7: a cycle whose stow record has no binId goes into neither dict and does not end the
\* walk, and a later cycle is still keyed by its own index with the fields of its own record.
C7_NoBinSkipped ==
    [][/\ (pc = "fetch_stow" /\ stowObject'.kind = "stow" /\ stowObject'.binId = NoBinId) =>
             /\ StowedItems' = StowedItems
             /\ AttemptedStows' = AttemptedStows
             /\ pc' = "fetch_annotation"
             /\ i' = i + 1
       /\ (pc = "fetch_stow" /\ stowObject'.kind = "stow" /\ stowObject'.binId # NoBinId) =>
             /\ pc' = "fetch_annotation"
             /\ i' = i + 1
             /\ CycleKey(i) \in Keys'
             /\ \A k \in Keys' \ Keys : k = CycleKey(i)
             /\ CycleKey(i) \in DOMAIN StowedItems' => StowedItems'[CycleKey(i)] = Entry(stowObject')
             /\ CycleKey(i) \in DOMAIN AttemptedStows' =>
                   AttemptedStows'[CycleKey(i)] = Entry(stowObject')
      ]_vars

\* Index 1 had no binId, index 2 was classified after it.
C7_Witness ==
    /\ pc = "fetch_annotation"
    /\ i = 3
    /\ cycles = 2
    /\ DOMAIN StowedItems = {CycleKey(2)}
    /\ AttemptedStows = EmptyDict

\* C8: at the end of a pass the count of observed cycles is the number of classified
\* cycles; a stow record without binId is not counted.
C8_CountIsClassified ==
    pc = "decide" => cycles = Cardinality(DOMAIN StowedItems) + Cardinality(DOMAIN AttemptedStows)

\* No pass dies of an exception.
NoReadFailure == [](current_state # "read_failed")

\* C9: when the passes observe fewer cycles than expected, the run reaches the report and
\* the warning states the deficit TrueCycleCount - cycles.
C9_DeficitReported ==
    (<>(pc = "decide") /\ NeverEnough /\ NoInterrupt /\ NoReadFailure)
    => <>(pc = "returned" /\ missingWarning = TrueCycleCount - cycles)

\* C10 as stated: a declared count of 0 or an unknown count (nothing or no number typed at
\* the prompt) starts no retry pass.
C10_ZeroOrUnknownNeverRetries ==
    inputt \in {"0", "", "abc"} => pc # "sleep"

\* C10 as amended: an expected count of 0 starts no retry pass, whatever the pass observed;
\* an unknown count is taken as 1.
C10_ZeroNeverRetries ==
    /\ (InWalk /\ TrueCycleCount = 0) => pc # "sleep"
    /\ (InWalk /\ inputt \in {"", "abc"}) => TrueCycleCount = 1

C10_Witness ==
    /\ pc = "generate"
    /\ inputt = "0"
    /\ TrueCycleCount = 0
    /\ cycles = 0
    /\ isDone

----------------------------------------------------------------------------
\* Bin Grid Mapper (section 4.4 of the specification; PickAssistant.py has no grid code):
\* the last two characters of binId are (columnDigit, rowLetter); a letter outside a..m or
\* a digit outside 1..4 is skipped; the item code is appended to the cell list at
\* row = 13 - (rowLetter - 'a'), col = columnDigit.

MaxGridItems == 2

RowLetters == {"a", "b", "c", "d", "e", "f", "g", "h", "i", "j", "k", "l", "m"}
ColumnDigits == {"1", "2", "3", "4"}

ValidSuffix(b) ==
    /\ Len(b) >= 2
    /\ b[Len(b)] \in RowLetters
    /\ b[Len(b) - 1] \in ColumnDigits

\* Mutant: row a is the first row and row m the last.
GridRow_FromTop(letter) == 1 + (Ord(letter) - Ord("a"))

GridRow(letter) == GridRows - (Ord(letter) - Ord("a"))

GridCol(digit) == ToInt(digit)

\* The letter and the digit of a cell, derived back from its coordinate.
RowLetterOf(r) == Chars[Ord("a") + (GridRows - r)]
ColumnDigitOf(c) == NumStr[c + 1]

\* The bin identifiers handed to the mapper: every valid two-character suffix, one longer
\* identifier, and identifiers with a letter or a digit out of range.
GridBinIds ==
    {<<d, l>> : d \in ColumnDigits, l \in RowLetters}
        \cup {<<"7", "1", "a">>, <<"1", "z">>, <<"5", "a">>, <<"a">>}

GridInit ==
    /\ benchmark_mode \in BOOLEAN
    /\ run_count = 1
    /\ orchestrator = "orchestrator_1"
    /\ podID = <<"pod_", "1">>
    /\ stationId = "0206"
    /\ custom_date = "2025-10-07"
    /\ pc = "grid"
    /\ annotationObject = NoSuchKey
    /\ stowObject = NoSuchKey
    /\ TrueCycleCount = 0
    /\ inputt = "0"
    /\ isDone = TRUE
    /\ i = 1
    /\ cycles = 0
    /\ StowedItems = EmptyDict
    /\ AttemptedStows = EmptyDict
    /\ AnnotationData = None
    /\ StowData = None
    /\ read_success = TRUE
    /\ current_state = "generation_complete"
    /\ itemss = <<>>
    /\ bitemss = <<>>
    /\ missingWarning = -1
    /\ exitCode = "-"
    /\ identityObjects = <<[kind |-> "identity"], [kind |-> "identity"], [kind |-> "identity"]>>
    /\ podId = [kind |-> "identity"]
    /\ podType = [kind |-> "identity"]
    /\ podFace = [kind |-> "identity"]
    /\ upload_calls = 0
    /\ persisted = FALSE
    /\ result = "-"
    /\ grid = EmptyGrid
    /\ gridBins = {}
    /\ MenuUnset

NotGrid == <<benchmark_mode, run_count, Identifiers, Menu, pc, PodIdentity, Sink, Bucket, TrueCycleCount, inputt,
             isDone, WalkLocals, read_success, current_state, Outputs, exitCode>>

\* One confirmed stow goes through the mapper.
GridPlace(b, sku) ==
    /\ pc = "grid"
    /\ Cardinality(gridBins) < MaxGridItems
    /\ b \notin gridBins
    /\ gridBins' = gridBins \cup {b}
    /\ grid' = IF ValidSuffix(b)
               THEN [grid EXCEPT ![GridRow(b[Len(b)])][GridCol(b[Len(b) - 1])] = Append(@, sku)]
               ELSE grid
    /\ UNCHANGED NotGrid

GridNext == \E b \in GridBinIds : GridPlace(b, "X")

GridSpec == GridInit /\ [][GridNext]_vars

----------------------------------------------------------------------------
\* grub_menu (the -a/--all flag): station, date, orchestrator and pod are chosen from
\* listings of the bucket, each fetched when its level is entered.

\* Longest listing the bucket answers with.
MaxListing == 2

StationNames == <<"0206", "0207", "0208">>
DateNames == <<"2025-10-06", "2025-10-07", "2025-10-08">>
OrchestratorNames == <<"orchestrator_1", "orchestrator_2", "orchestrator_3">>
PodNames == <<"pod_1", "pod_2", "pod_3">>

\* `aws s3 ls` answers: nothing (or a failed command, which get_* turns into []), or the
\* first names of the level.
Prefixes(names) == {SubSeq(names, 1, n) : n \in 0..MaxListing}

\* The names at the positions S, in their order.
SubList(names, S) ==
    [j \in 1..Cardinality(S) |->
        names[CHOOSE n \in S : Cardinality({m \in S : m < n}) = j - 1]]

\* The pod folders of an orchestrator: any of the pods may be there.
PodListings == {SubList(PodNames, S) : S \in SUBSET (1..MaxListing)}

\* What get_key returns: the named keys, and any other character as it is.
MenuKeys == {"CTRL_C", "CTRL_B", "ENTER", "UP", "DOWN", "x"}

\* `selected_idx = (selected_idx - 1) % len(options)` on UP, `+ 1` on DOWN.
Move(k, n) ==
    IF k = "UP" THEN (selected_idx + n - 1) % n
    ELSE IF k = "DOWN" THEN (selected_idx + 1) % n
    ELSE selected_idx

MenuInit ==
    /\ benchmark_mode \in BOOLEAN
    /\ run_count = 1
    /\ orchestrator = ""
    /\ podID = NoPod
    /\ stationId = ""
    /\ custom_date = ""
    /\ pc = "get_stations"
    /\ annotationObject = NoSuchKey
    /\ stowObject = NoSuchKey
    /\ TrueCycleCount = 0
    /\ inputt = "-"
    /\ isDone = FALSE
    /\ i = 0
    /\ cycles = 0
    /\ StowedItems = EmptyDict
    /\ AttemptedStows = EmptyDict
    /\ AnnotationData = None
    /\ StowData = None
    /\ read_success = FALSE
    /\ current_state = "reading_files"
    /\ itemss = <<>>
    /\ bitemss = <<>>
    /\ missingWarning = -1
    /\ exitCode = "-"
    /\ identityObjects = <<NoSuchKey, NoSuchKey, NoSuchKey>>
    /\ podId = None
    /\ podType = None
    /\ podFace = None
    /\ upload_calls = 0
    /\ persisted = FALSE
    /\ result = "-"
    /\ grid = EmptyGrid
    /\ gridBins = {}
    /\ MenuUnset

NotMenu == <<benchmark_mode, run_count, Identifiers, PodIdentity, Sink, Grid, Bucket,
             TrueCycleCount, inputt, isDone, WalkLocals, read_success, current_state, Outputs>>

\* `stations = get_stations()`; an empty listing is fetched again.
GetStations(list) ==
    /\ pc = "get_stations"
    /\ stations' = list
    /\ IF list = <<>>
       THEN UNCHANGED <<pc, selected_idx>>
       ELSE pc' = "station_menu" /\ selected_idx' = 0
    /\ UNCHANGED <<NotMenu, exitCode, dates, orchestrators, pods, key, Selection, menuResult>>

\* One key in the station menu; Ctrl+B returns None.
StationMenu(k) ==
    /\ pc = "station_menu"
    /\ key' = k
    /\ selected_idx' = Move(k, Len(stations))
    /\ pc' = CASE k = "CTRL_C" -> "exited"
              [] k = "ENTER" -> "get_latest_dates"
              [] k = "CTRL_B" -> "menu_returned"
              [] OTHER -> pc
    /\ exitCode' = IF k = "CTRL_C" THEN "1" ELSE exitCode
    /\ selected_station' = IF k = "ENTER" THEN stations[selected_idx + 1] ELSE selected_station
    /\ menuResult' = IF k = "CTRL_B" THEN <<"None">> ELSE menuResult
    /\ UNCHANGED <<NotMenu, Listings, selected_date, selected_orchestrator, selected_pod>>

\* `dates = get_latest_dates(selected_station)`; `if not dates: continue`.
GetLatestDates(list) ==
    /\ pc = "get_latest_dates"
    /\ dates' = list
    /\ IF list = <<>>
       THEN pc' = "get_stations" /\ UNCHANGED selected_idx
       ELSE pc' = "date_menu" /\ selected_idx' = 0
    /\ UNCHANGED <<NotMenu, exitCode, stations, orchestrators, pods, key, Selection, menuResult>>

\* One key in the date menu; Ctrl+B breaks and `if key == 'CTRL_B': continue`.
DateMenu(k) ==
    /\ pc = "date_menu"
    /\ key' = k
    /\ selected_idx' = Move(k, Len(dates))
    /\ pc' = CASE k = "CTRL_C" -> "exited"
              [] k = "ENTER" -> "get_orchestrators"
              [] k = "CTRL_B" -> "get_stations"
              [] OTHER -> pc
    /\ exitCode' = IF k = "CTRL_C" THEN "1" ELSE exitCode
    /\ selected_date' = IF k = "ENTER" THEN dates[selected_idx + 1] ELSE selected_date
    /\ UNCHANGED <<NotMenu, Listings, selected_station, selected_orchestrator, selected_pod,
                   menuResult>>

\* `orchestrators = get_orchestrators(...)`; `if not orchestrators: continue`.
GetOrchestrators(list) ==
    /\ pc = "get_orchestrators"
    /\ orchestrators' = list
    /\ IF list = <<>>
       THEN pc' = "get_stations" /\ UNCHANGED selected_idx
       ELSE pc' = "orchestrator_menu" /\ selected_idx' = 0
    /\ UNCHANGED <<NotMenu, exitCode, stations, dates, pods, key, Selection, menuResult>>

\* One key in the orchestrator menu; Ctrl+B breaks and `if key == 'CTRL_B': continue`.
OrchestratorMenu(k) ==
    /\ pc = "orchestrator_menu"
    /\ key' = k
    /\ selected_idx' = Move(k, Len(orchestrators))
    /\ pc' = CASE k = "CTRL_C" -> "exited"
              [] k = "ENTER" -> "get_pods"
              [] k = "CTRL_B" -> "get_stations"
              [] OTHER -> pc
    /\ exitCode' = IF k = "CTRL_C" THEN "1" ELSE exitCode
    /\ selected_orchestrator' =
          IF k = "ENTER" THEN orchestrators[selected_idx + 1] ELSE selected_orchestrator
    /\ UNCHANGED <<NotMenu, Listings, selected_station, selected_date, selected_pod, menuResult>>

\* `pods = get_pods(...)`; `if not pods: continue`; `if len(pods) == 1: selected_pod =
\* "pod_1"` and the selection is returned.
GetPods(list) ==
    /\ pc = "get_pods"
    /\ pods' = list
    /\ IF list = <<>>
       THEN /\ pc' = "get_stations"
            /\ UNCHANGED <<selected_idx, selected_pod, menuResult>>
       ELSE IF Len(list) = 1
       THEN /\ selected_pod' = "pod_1"
            /\ menuResult' = <<selected_station, selected_date, selected_orchestrator, "pod_1">>
            /\ pc' = "menu_returned"
            /\ UNCHANGED selected_idx
       ELSE /\ pc' = "pod_menu"
            /\ selected_idx' = 0
            /\ UNCHANGED <<selected_pod, menuResult>>
    /\ UNCHANGED <<NotMenu, exitCode, stations, dates, orchestrators, key, selected_station,
                   selected_date, selected_orchestrator>>

\* One key in the pod menu; Enter returns the selection.
PodMenu(k) ==
    /\ pc = "pod_menu"
    /\ key' = k
    /\ selected_idx' = Move(k, Len(pods))
    /\ pc' = CASE k = "CTRL_C" -> "exited"
              [] k = "ENTER" -> "menu_returned"
              [] k = "CTRL_B" -> "get_stations"
              [] OTHER -> pc
    /\ exitCode' = IF k = "CTRL_C" THEN "1" ELSE exitCode
    /\ selected_pod' = IF k = "ENTER" THEN pods[selected_idx + 1] ELSE selected_pod
    /\ menuResult' =
          IF k = "ENTER"
          THEN <<selected_station, selected_date, selected_orchestrator, pods[selected_idx + 1]>>
          ELSE menuResult
    /\ UNCHANGED <<NotMenu, Listings, selected_station, selected_date, selected_orchestrator>>

\* `if all_mode: grub_menu(); exit(0)`
AllModeExit ==
    /\ pc = "menu_returned"
    /\ pc' = "exited"
    /\ exitCode' = "0"
    /\ UNCHANGED <<NotMenu, Menu>>

MenuNext ==
    \/ \E list \in Prefixes(StationNames) : GetStations(list)
    \/ \E k \in MenuKeys : StationMenu(k)
    \/ \E list \in Prefixes(DateNames) : GetLatestDates(list)
    \/ \E k \in MenuKeys : DateMenu(k)
    \/ \E list \in Prefixes(OrchestratorNames) : GetOrchestrators(list)
    \/ \E k \in MenuKeys : OrchestratorMenu(k)
    \/ \E list \in PodListings : GetPods(list)
    \/ \E k \in MenuKeys : PodMenu(k)
    \/ AllModeExit

MenuSpec == MenuInit /\ [][MenuNext]_vars

\* The row letter and the column digit of a list item: the last two characters of binId.
LetterOf(x) == x[1][Len(x[1])]
DigitOf(x) == x[1][Len(x[1]) - 1]

\* Each item's (letter, digit) is not greater than the next one's.
Ordered(l) ==
    \A j \in 1..(Len(l) - 1) :
        \/ Ord(LetterOf(l[j])) < Ord(LetterOf(l[j + 1]))
        \/ LetterOf(l[j]) = LetterOf(l[j + 1]) /\ Ord(DigitOf(l[j])) <= Ord(DigitOf(l[j + 1]))

\* The [binId, itemFcsku] pairs of a dict by increasing cycle index.
PairsByCycle(d) ==
    LET ns == {k[2] : k \in DOMAIN d}
    IN [j \in 1..Cardinality(ns) |->
           LET n == CHOOSE n \in ns : Cardinality({m \in ns : m < n}) = j - 1
           IN <<d[CycleKey(n)].binId, d[CycleKey(n)].itemFcsku>>]

\* The items of a list that have the (letter, digit) of item x, in the order of the list.
SameCell(l, x) ==
    LET Same(y) == LetterOf(y) = LetterOf(x) /\ DigitOf(y) = DigitOf(x)
    IN SelectSeq(l, Same)

\* l holds the items of d, those of one (letter, digit) in their cycle order.
StableOf(l, d) ==
    /\ Len(l) = Cardinality(DOMAIN d)
    /\ \A j \in 1..Len(l) : SameCell(l, l[j]) = SameCell(PairsByCycle(d), l[j])

\* C11: the confirmed list and the attempted list are each ordered by the last two
\* characters of binId, row letter first and column digit second, and items of equal
\* letter and digit keep their cycle order.
C11_SortedByLetterThenDigit ==
    pc \in {"report", "returned"} =>
        /\ Ordered(itemss)
        /\ Ordered(bitemss)
        /\ StableOf(itemss, StowedItems)
        /\ StableOf(bitemss, AttemptedStows)

\* Cycles 1..3 stowed into 2b, 71a and 1a come out as 71a, 1a, 2b.
C11_Witness ==
    /\ pc = "report"
    /\ Len(itemss) = 3
    /\ StowedItems[CycleKey(1)].binId = <<"2", "b">>
    /\ itemss[1][1] = <<"7", "1", "a">>
    /\ itemss[2][1] = <<"1", "a">>
    /\ itemss[3][1] = <<"2", "b">>

\* The answer of the bucket was the not-found condition.
NotFound(obj) == obj.kind = "NoSuchKey"

\* C12: a key that is not found (annotation, stow result, pod identity record) reaches the
\* caller as None, never as an exception: the walk goes on to the next fetch or ends at
\* the decision, the input loop goes to its retry prompt, and no pass fails on it.
C12_NotFoundIsAbsent ==
    /\ (pc = "fetch_stow" /\ NotFound(annotationObject)) => AnnotationData = None
    /\ (pc \in {"decide", "exited"} \/ (pc = "fetch_annotation" /\ i > 1))
          => (NotFound(stowObject) => StowData = None /\ current_state # "read_failed")
    /\ pc \in {"retry_prompt", "pass_start"} =>
          /\ NotFound(identityObjects[1]) => podId = None
          /\ NotFound(identityObjects[2]) => podType = None
          /\ NotFound(identityObjects[3]) => podFace = None
          /\ (\E k \in 1..3 : NotFound(identityObjects[k])) => pc = "retry_prompt"

\* A pass went past an index whose stow result is not found and whose annotation is there.
C12_Witness ==
    /\ pc = "fetch_annotation"
    /\ i > 1
    /\ NotFound(stowObject)
    /\ ~NotFound(annotationObject)
    /\ StowData = None

\* C13: the upload is called at most once in a run, and only from the report step, when
\* the walk is complete and both sorted lists are generated; Ctrl+C in the walk or the
\* retry loop ends the run with no upload call made.
C13_PersistAtMostOnce ==
    [][/\ upload_calls' <= 1
       /\ upload_calls' > upload_calls =>
             /\ pc = "report"
             /\ isDone /\ read_success
             /\ current_state = "generation_complete"
             /\ itemss = SortedItems(StowedItems)
             /\ bitemss = SortedItems(AttemptedStows)
       /\ (InWalk /\ pc' = "interrupted") => (upload_calls = 0 /\ upload_calls' = 0)]_vars

\* The run uploaded once, with a confirmed and an attempted stow in its lists.
C13_Witness ==
    /\ pc = "returned"
    /\ upload_calls = 1
    /\ Len(itemss) = 1
    /\ Len(bitemss) = 1

\* C14: when the upload was called and the summary was not persisted, the run still
\* returns with its lists as generated, and what it returns is not the success status.
C14_FailedUploadReported ==
    (pc = "returned" /\ upload_calls = 1 /\ ~persisted) =>
        /\ itemss = SortedItems(StowedItems)
        /\ bitemss = SortedItems(AttemptedStows)
        /\ result # "True"

\* C15: when a pod identity record is absent and the user declines to retry, the process
\* ends with a non-zero exit status, in benchmark mode as in normal mode, and no walk pass
\* is started from the retry prompt.
C15_IdentityFailureExitsNonZero ==
    [][pc = "retry_prompt" =>
          /\ pc' \notin {"pass_start", "fetch_annotation", "fetch_stow", "decide", "sleep"}
          /\ pc' = "exited" => exitCode' \notin {"0", "-"}]_vars

\* The process ends at this step (Ctrl+C aside, which ends it at "interrupted").
Exits == pc # "exited" /\ pc' = "exited"

Suffix(b) == <<b[Len(b) - 1], b[Len(b)]>>

\* The bins handed to the mapper so far whose suffix is valid.
Placed == {b \in gridBins : ValidSuffix(b)}

\* C17: a bin whose last two characters are a digit in 1..4 and a letter in a..m has its
\* item at row 13 - (letter - 'a') and column digit; the letter and digit derived back from
\* the coordinate of a cell are the suffix of every bin placed there; bins of distinct valid
\* suffixes are in distinct cells.
C17_GridRoundTrip ==
    /\ \A b \in Placed :
          LET r == 13 - (Ord(b[Len(b)]) - Ord("a"))
              c == ToInt(b[Len(b) - 1])
          IN /\ r \in 1..13 /\ c \in 1..4
             /\ grid[r][c] # <<>>
             /\ <<ColumnDigitOf(c), RowLetterOf(r)>> = Suffix(b)
    /\ \A r \in 1..13, c \in 1..4 :
          Len(grid[r][c]) =
              Cardinality({b \in Placed : Suffix(b) = <<ColumnDigitOf(c), RowLetterOf(r)>>})
    /\ \A b1, b2 \in Placed :
          Suffix(b1) # Suffix(b2) =>
              <<GridRow(b1[Len(b1)]), GridCol(b1[Len(b1) - 1])>>
                  # <<GridRow(b2[Len(b2)]), GridCol(b2[Len(b2) - 1])>>

\* 3m is in the top row, third column, and 1a in the bottom row, first column.
C17_Witness ==
    /\ gridBins = {<<"3", "m">>, <<"1", "a">>}
    /\ grid[1][3] = <<"X">>
    /\ grid[13][1] = <<"X">>

\* The cycle index whose match_output answer stowObject holds: i once the stow record of
\* i is fetched, i - 1 (0: none yet in this pass) before.
LastStowIndex == IF pc \in {"fetch_annotation", "fetch_stow"} THEN i - 1 ELSE i

\* C18: the annotation of index i is fetched only when the stow record of i has already
\* been fetched and found present with a non-empty binId.
C18_StowProbedFirst ==
    [][(pc = "fetch_annotation" /\ pc' = "fetch_stow") =>
          /\ LastStowIndex = i
          /\ stowObject.kind = "stow"
          /\ stowObject.binId # NoBinId]_vars

\* C19: in every state of a walk pass the two dicts are keyed by cycle index, no key is in
\* both, every key is the key of an index below i, and the dicts hold no more entries than
\* indexes were probed.
C19_KeyedByCycleIndex ==
    InWalk =>
        /\ DOMAIN StowedItems \cap DOMAIN AttemptedStows = {}
        /\ \A k \in Keys : k[1] = "/cycle_" /\ k[2] \in 1..(i - 1)
        /\ Cardinality(Keys) <= i - 1

\* Index 1 is in one dict and index 2 in the other while the pass goes on.
C19_Witness ==
    /\ pc = "fetch_annotation"
    /\ i = 3
    /\ DOMAIN StowedItems = {<<"/cycle_", 2>>}
    /\ DOMAIN AttemptedStows = {<<"/cycle_", 1>>}

\* The workflow state becomes st at this step.
Enters(st) == current_state # st /\ current_state' = st

\* C20: GENERATING_CONTENT is entered only from READ_COMPLETE with read_success true,
\* GENERATION_COMPLETE only from GENERATING_CONTENT, and the step that sets READ_FAILED is
\* the step at which the exception leaves the run and ends the process.
C20_GenerationGated ==
    [][/\ Enters("generating_content") =>
             (current_state = "read_complete" /\ read_success /\ isDone)
       /\ Enters("generation_complete") => current_state = "generating_content"
       /\ Enters("read_failed") => (~read_success' /\ pc' = "exited" /\ exitCode' = "1")
       /\ current_state = "read_failed" =>
             (pc = "exited" /\ current_state' = "read_failed")]_vars

\* Both lists are generated, through READ_COMPLETE and GENERATING_CONTENT.
C20_Witness ==
    /\ pc = "report"
    /\ current_state = "generation_complete"
    /\ read_success
    /\ isDone

\* C21: at the start of every call of run_pick_assistant, the second and later runs of
\* benchmark mode included, orchestrator, pod, station, date and expected count are unset
\* and no dict, list or fetched record of an earlier run is left.
C21_EveryRunFresh ==
    pc = "input" =>
        /\ orchestrator = "" /\ podID = NoPod /\ stationId = "" /\ custom_date = ""
        /\ TrueCycleCount = 0
        /\ StowedItems = EmptyDict /\ AttemptedStows = EmptyDict
        /\ itemss = <<>> /\ bitemss = <<>>
        /\ cycles = 0 /\ ~isDone /\ ~read_success

\* The second run of a benchmark session is at its first prompt.
C21_Witness ==
    /\ benchmark_mode
    /\ run_count = 2
    /\ pc = "input"

\* The three pod identity records are present.
IdentityPresent ==
    /\ \A k \in 1..3 : identityObjects[k].kind = "identity"
    /\ podId # None /\ podType # None /\ podFace # None

\* C23: the walk is entered only from an input attempt that fetched all three pod
\* identity records present, and stays with them; a retried attempt starts with
\* orchestrator, pod ID, expected cycle count, station and date all unset.
C23_WalkNeedsIdentity ==
    [][/\ (pc # "pass_start" /\ pc' = "pass_start") => (pc = "input" /\ IdentityPresent')
       /\ (pc' = "pass_start" \/ InWalk') => IdentityPresent'
       /\ (pc = "input" /\ ~IdentityPresent' /\ pc' # "interrupted")
             => pc' \in {"retry_prompt", "exited"}
       /\ (pc = "retry_prompt" /\ pc' = "input") =>
             /\ orchestrator' = "" /\ podID' = NoPod /\ TrueCycleCount' = 0
             /\ stationId' = "" /\ custom_date' = ""]_vars

\* An attempt that typed the count 2 found a pod identity record missing and was
\* retried: the loop is at its first prompt again, with every input unset.
C23_Witness ==
    /\ pc = "input"
    /\ inputt = "2"
    /\ ~IdentityPresent
    /\ orchestrator = "" /\ podID = NoPod /\ stationId = "" /\ custom_date = ""
    /\ TrueCycleCount = 0

\* Ctrl+B is the key read at this step.
CtrlB == key' = "CTRL_B"

\* The levels of the menu, each entered by fetching its listing.
AtStationLevel == pc' \in {"get_stations", "station_menu"}
AtDateLevel == pc' \in {"get_latest_dates", "date_menu"}
AtOrchestratorLevel == pc' \in {"get_orchestrators", "orchestrator_menu"}

\* C22: Ctrl+B goes back one level: from the station menu out of the menu with no
\* selection, from the date menu to the stations, from the orchestrator menu to the dates
\* with the station kept, from the pod menu to the orchestrators with station and date
\* kept; an empty listing goes back to the level before it in the same way.
C22_CtrlBBackOneLevel ==
    [][/\ (pc = "station_menu" /\ CtrlB) => (pc' = "menu_returned" /\ menuResult' = <<"None">>)
       /\ (pc = "date_menu" /\ CtrlB) => AtStationLevel
       /\ (pc = "orchestrator_menu" /\ CtrlB) =>
             (AtDateLevel /\ selected_station' = selected_station)
       /\ (pc = "pod_menu" /\ CtrlB) =>
             /\ AtOrchestratorLevel
             /\ selected_station' = selected_station
             /\ selected_date' = selected_date
       /\ (pc = "get_latest_dates" /\ dates' = <<>>) => AtStationLevel
       /\ (pc = "get_orchestrators" /\ orchestrators' = <<>>) => AtDateLevel
       /\ (pc = "get_pods" /\ pods' = <<>>) => AtOrchestratorLevel]_vars

\* The members of a listing.
Shown(list) == {list[n] : n \in 1..Len(list)}

\* C24: a returned selection has its station, date, orchestrator and pod each among the
\* names of the listing shown at its level, the pod also when one pod only is listed.
C24_SelectionWasListed ==
    (pc = "menu_returned" /\ menuResult # <<"None">>) =>
        /\ menuResult = <<selected_station, selected_date, selected_orchestrator, selected_pod>>
        /\ selected_station \in Shown(stations)
        /\ selected_date \in Shown(dates)
        /\ selected_orchestrator \in Shown(orchestrators)
        /\ selected_pod \in Shown(pods)

\* C25: in every state of a walk pass the entries of the two dicts together are at most
\* cycles, and cycles is at most i - 1; the confirmed list generated after the walk has at
\* most cycles items.
C25_EntriesAtMostCycles ==
    /\ InWalk =>
          /\ Cardinality(DOMAIN StowedItems) + Cardinality(DOMAIN AttemptedStows) <= cycles
          /\ cycles <= i - 1
    /\ pc \in {"report", "returned"} => Len(itemss) <= cycles

\* Two stow records were counted and one of them, without binId, is in neither dict.
C25_Witness ==
    /\ pc = "fetch_annotation"
    /\ i = 3
    /\ cycles = 2
    /\ Cardinality(DOMAIN StowedItems) = 1
    /\ AttemptedStows = EmptyDict

====
